---- MODULE Spec2Model ----
(***************************************************************************)
(* Model of the stocks data-access layer of db.go: UpsertStock and         *)
(* QueryStocks, run by callers against a relational store that holds the   *)
(* table `stocks` (id AUTO_INCREMENT, name UNIQUE, amount).                *)
(*                                                                         *)
(* The store is the environment of the code.  It keeps the committed rows, *)
(* one transaction per caller with the write that transaction has pending, *)
(* and it may answer any statement with a fault.  A statement that needs a *)
(* row another open transaction has written waits (the action is not       *)
(* enabled) until that transaction ends.                                   *)
(***************************************************************************)
EXTENDS Integers, Sequences, FiniteSets, TLC

\* ------------------------------------------------------------------ bounds
MaxCalls == 2       \* calls of UpsertStock / QueryStocks started in one behaviour
MaxDelta == 1       \* |amount| argument of UpsertStock
MaxInit == 1        \* largest amount of the seeded record
MaxRows == 2        \* rows of a mocked result set

Procs == {1, 2}
Names == {"apple", "banana"}
QueryNames == Names \cup {""}
Deltas == (0 - MaxDelta) .. MaxDelta
InitAmounts == 0 .. MaxInit

\* ------------------------------------------------------------------ errors
\* An error value is the sequence of the parts of its message, outermost
\* first; nil is the empty sequence.  fmt.Errorf("<prefix>: %v", err) puts the
\* prefix in front of the message of err.
Nil == <<>>
ErrNoRows == <<"sql: no rows in result set">>
ErrDuplicate == <<"duplicate entry">>
Faults == {<<"store fault">>}

LookupErrorMsg == "lookup error"            \* "データ確認中にエラーが発生"
BeginErrorMsg == "transaction start error"  \* "トランザクション開始エラー"
UpdateErrorMsg == "update error"            \* "データ更新エラー"
InsertErrorMsg == "insert error"            \* "データ挿入エラー"
CommitErrorMsg == "commit error"            \* "トランザクションコミットエラー"

\* As Errorf, with one message for every step.
ErrorfUnlabelled(prefix, err) == <<"error">> \o err

\* As Errorf, with the cause left out of the message.
ErrorfNoCause(prefix, err) == <<prefix>>

Errorf(prefix, err) == <<prefix>> \o err

\* ------------------------------------------------------------------- table
Rec(i, n, a) == [id |-> i, name |-> n, amount |-> a]

\* Indexes of the rows of tbl with the given name, in table order.
RowsNamed(tbl, n) == {i \in 1 .. Len(tbl) : tbl[i].name = n}

HasName(tbl, n) == RowsNamed(tbl, n) # {}

FirstNamed(tbl, n) == CHOOSE i \in RowsNamed(tbl, n) : \A j \in RowsNamed(tbl, n) : i <= j

\* SELECT amount FROM stocks WHERE name = ?  followed by Scan(&existingAmount):
\* the amount of the first matching row, or sql.ErrNoRows.
QueryRowScan(tbl, n) ==
    IF HasName(tbl, n)
    THEN [err |-> Nil, val |-> tbl[FirstNamed(tbl, n)].amount]
    ELSE [err |-> ErrNoRows, val |-> 0]

\* The amount of the record of n.
AmountOf(tbl, n) == tbl[FirstNamed(tbl, n)].amount

\* As ApplyUpdate, for a statement without the WHERE clause.
ApplyUpdateEveryRow(tbl, n, a) == [i \in 1 .. Len(tbl) |-> [tbl[i] EXCEPT !.amount = a]]

\* As ApplyUpdate, with a record removed once its amount is set to zero.
ApplyUpdateDropZero(tbl, n, a) ==
    IF a = 0
    THEN SelectSeq(tbl, LAMBDA r : r.name # n)
    ELSE [i \in 1 .. Len(tbl) |-> IF tbl[i].name = n THEN [tbl[i] EXCEPT !.amount = a] ELSE tbl[i]]

\* UPDATE stocks SET amount = ? WHERE name = ?
ApplyUpdate(tbl, n, a) ==
    [i \in 1 .. Len(tbl) |-> IF tbl[i].name = n THEN [tbl[i] EXCEPT !.amount = a] ELSE tbl[i]]

\* INSERT INTO stocks (name, amount) VALUES (?, ?) with the id the store assigned.
ApplyInsert(tbl, i, n, a) == Append(tbl, Rec(i, n, a))

NoWrite == [op |-> "none", name |-> "", amount |-> 0, id |-> 0]
UpdateWrite(n, a) == [op |-> "update", name |-> n, amount |-> a, id |-> 0]
InsertWrite(i, n, a) == [op |-> "insert", name |-> n, amount |-> a, id |-> i]

\* The committed table after a transaction with pending write w commits.
ApplyWrite(tbl, w) ==
    IF w.op = "update" THEN ApplyUpdate(tbl, w.name, w.amount)
    ELSE IF w.op = "insert" THEN ApplyInsert(tbl, w.id, w.name, w.amount)
    ELSE tbl

\* The seeded tables: empty, or the one record the integration setup inserts.
InitTables == {<<>>} \cup {<<Rec(1, "apple", a)>> : a \in InitAmounts}

\* ------------------------------------------------------------------ values
\* A value as the driver hands it to Scan, tagged with its Go type.
IntVal(i) == [t |-> "int64", i |-> i, s |-> ""]
BytesVal(str) == [t |-> "bytes", i |-> 0, s |-> str]
StringVal(str) == [t |-> "string", i |-> 0, s |-> str]
NullVal == [t |-> "nil", i |-> 0, s |-> ""]

\* A slice of row maps as QueryStocks returns it: nil, or a (possibly empty) slice.
NilRows == [nil |-> TRUE, rows |-> <<>>]
Rows(seq) == [nil |-> FALSE, rows |-> seq]

\* Column names of SELECT * FROM stocks, in the order of the table definition.
StockColumns == <<"id", "name", "amount">>

\* One row of stocks as the driver returns it: INT as int64, VARCHAR as []byte.
DriverRow(r) == <<IntVal(r.id), BytesVal(r.name), IntVal(r.amount)>>

\* As SelectWhereName, with the empty name selecting every row
\* (SELECT * FROM stocks;).
SelectAllOnEmptyName(tbl, n) ==
    LET match == IF n = "" THEN tbl ELSE SelectSeq(tbl, LAMBDA r : r.name = n)
    IN  [i \in 1 .. Len(match) |->
            <<IntVal(match[i].id), BytesVal(match[i].name), IntVal(match[i].amount)>>]

\* SELECT * FROM stocks WHERE name = ?;  (db.go 37): the matching rows in table order.
SelectWhereName(tbl, n) ==
    LET match == SelectSeq(tbl, LAMBDA r : r.name = n)
    IN  [i \in 1 .. Len(match) |-> DriverRow(match[i])]

NoCursor == [open |-> FALSE, rows |-> <<>>, pos |-> 0]
OpenCursor(rws) == [open |-> TRUE, rows |-> rws, pos |-> 0]

\* ------------------------------------------------------------------- state
VARIABLES
    stocks,          \* committed rows of the table, in insertion order
    nextId,          \* AUTO_INCREMENT counter of the table
    stx,             \* store side of each caller's transaction: none/active/committed/aborted
    pending,         \* the write each caller's active transaction holds
    pc,              \* position of each caller
    fn,              \* the function the caller runs or ran last
    name,            \* argument name
    amount,          \* argument amount (UpsertStock)
    existingAmount,  \* local of UpsertStock
    exists,          \* local of UpsertStock
    txDone,          \* sql.Tx finished (committed or rolled back) on the client side
    cursor,          \* *sql.Rows of QueryStocks: open flag, rows of driver values, position
    columns,         \* local of QueryStocks
    results,         \* local of QueryStocks
    retRows,         \* slice the call returned (QueryStocks)
    ret,             \* error the call returned
    pre,             \* table when the call started
    ops,             \* store operations the call has issued, in order
    log,             \* the calls of the observed callers that returned, in order of return
    observed,        \* the callers whose returns are recorded in log
    calls,           \* calls started
    main             \* mainProcess: position, arguments, answer of the ping, result

storeVars == <<stocks, nextId, stx, pending>>
upsertVars == <<existingAmount, exists, txDone>>
queryVars == <<cursor, columns, results>>
callVars == <<fn, name, amount, pre, observed, main>>
vars == <<stocks, nextId, stx, pending, pc, fn, name, amount, existingAmount, exists,
          txDone, cursor, columns, results, retRows, ret, pre, ops, log, observed, calls,
          main>>

\* mainProcess is not running.
NoMain == [pc |-> "off", name |-> "", amount |-> 0, pinged |-> FALSE, ping |-> Nil, ret |-> Nil]

InitState ==
    /\ stocks \in InitTables
    /\ nextId = Len(stocks) + 1
    /\ stx = [p \in Procs |-> "none"]
    /\ pending = [p \in Procs |-> NoWrite]
    /\ pc = [p \in Procs |-> "idle"]
    /\ fn = [p \in Procs |-> "none"]
    /\ name = [p \in Procs |-> ""]
    /\ amount = [p \in Procs |-> 0]
    /\ existingAmount = [p \in Procs |-> 0]
    /\ exists = [p \in Procs |-> FALSE]
    /\ txDone = [p \in Procs |-> FALSE]
    /\ cursor = [p \in Procs |-> NoCursor]
    /\ columns = [p \in Procs |-> <<>>]
    /\ results = [p \in Procs |-> <<>>]
    /\ retRows = [p \in Procs |-> NilRows]
    /\ ret = [p \in Procs |-> Nil]
    /\ pre = [p \in Procs |-> <<>>]
    /\ ops = [p \in Procs |-> <<>>]
    /\ log = <<>>
    /\ calls = 0

\* One caller is watched: every call that returns is recorded.
Init == InitState /\ observed = {1} /\ main = NoMain

\* Overlapping callers; no call history is kept.
InitConc == InitState /\ observed = {} /\ main = NoMain

\* ------------------------------------------------------------- UpsertStock
\* A store operation the call issued, with the error the store answered.
Op(kind, err) == [op |-> kind, err |-> err]

\* What the store may answer to a statement that can succeed: nil or a fault.
Answers == {Nil} \cup Faults

LogEntry(p, err, rws) ==
    [fn |-> fn[p], name |-> name[p], amount |-> amount[p], ret |-> err, rows |-> rws,
     before |-> pre[p]]

Record(p, entry) == IF p \in observed THEN Append(log, entry) ELSE log

\* As Return, but with the rollback already deferred: the function unwinds
\* through it.
ReturnThroughRollback(p, err) ==
    /\ pc' = [pc EXCEPT ![p] = "rollback"]
    /\ ret' = [ret EXCEPT ![p] = err]
    /\ UNCHANGED log

\* UpsertStock returns err to its caller, before any rollback is deferred.
Return(p, err) ==
    /\ pc' = [pc EXCEPT ![p] = "idle"]
    /\ ret' = [ret EXCEPT ![p] = err]
    /\ log' = Record(p, LogEntry(p, err, NilRows))

\* db.go 78-81: caller p enters UpsertStock(db, n, d).
EnterUpsert(p, n, d) ==
    /\ pc[p] = "idle"
    /\ calls' = calls + 1
    /\ pc' = [pc EXCEPT ![p] = "lookup"]
    /\ fn' = [fn EXCEPT ![p] = "UpsertStock"]
    /\ name' = [name EXCEPT ![p] = n]
    /\ amount' = [amount EXCEPT ![p] = d]
    /\ existingAmount' = [existingAmount EXCEPT ![p] = 0]
    /\ exists' = [exists EXCEPT ![p] = FALSE]
    /\ txDone' = [txDone EXCEPT ![p] = FALSE]
    /\ ret' = [ret EXCEPT ![p] = Nil]
    /\ pre' = [pre EXCEPT ![p] = stocks]
    /\ ops' = [ops EXCEPT ![p] = <<>>]
    /\ stx' = [stx EXCEPT ![p] = "none"]
    /\ retRows' = [retRows EXCEPT ![p] = NilRows]
    /\ UNCHANGED <<stocks, nextId, pending, log, observed, queryVars>>

\* A caller enters UpsertStock(db, n, d), any name and amount.
CallUpsert(p, n, d) == calls < MaxCalls /\ EnterUpsert(p, n, d) /\ UNCHANGED main

\* What the store may answer to the lookup: the row or no rows, or a fault.
LookupAnswers(tbl, n) ==
    {QueryRowScan(tbl, n)} \cup {[err |-> f, val |-> 0] : f \in Faults}

\* As Classify, without the comparison to sql.ErrNoRows: any error is "no rows".
ClassifyNoRowsUnchecked(err) == IF err # Nil THEN "not-found" ELSE "found"

\* As Classify, with "no rows" taken for a failure like any other error.
ClassifyNoRowsIsError(err) == IF err # Nil THEN "lookup-failed" ELSE "found"

\* Classification of the lookup error (db.go 86-96).
Classify(err) ==
    IF err # Nil
    THEN IF err = ErrNoRows THEN "not-found" ELSE "lookup-failed"
    ELSE "found"

\* db.go 83-96: the lookup outside any transaction and its classification.
Lookup(p) ==
    /\ pc[p] = "lookup"
    /\ \E ans \in LookupAnswers(stocks, name[p]) :
        /\ ops' = [ops EXCEPT ![p] = Append(@, Op("lookup", ans.err))]
        /\ IF Classify(ans.err) = "lookup-failed"
           THEN /\ Return(p, Errorf(LookupErrorMsg, ans.err))
                /\ UNCHANGED <<existingAmount, exists>>
           ELSE /\ exists' = [exists EXCEPT ![p] = (Classify(ans.err) = "found")]
                /\ existingAmount' = [existingAmount EXCEPT ![p] = ans.val]
                /\ pc' = [pc EXCEPT ![p] = "begin"]
                /\ UNCHANGED <<ret, log>>
    /\ UNCHANGED <<storeVars, callVars, txDone, calls, queryVars, retRows>>

\* db.go 99-103: db.Begin(); on success the rollback is deferred.
Begin(p) ==
    /\ pc[p] = "begin"
    /\ \E err \in Answers :
        /\ ops' = [ops EXCEPT ![p] = Append(@, Op("begin", err))]
        /\ IF err # Nil
           THEN /\ Return(p, Errorf(BeginErrorMsg, err))
                /\ UNCHANGED stx
           ELSE /\ stx' = [stx EXCEPT ![p] = "active"]
                /\ pc' = [pc EXCEPT ![p] = "write"]
                /\ UNCHANGED <<ret, log>>
    /\ UNCHANGED <<stocks, nextId, pending, callVars, upsertVars, calls, queryVars, retRows>>

\* As NewAmount, with a floor at zero.
NewAmountFloored(existing, d) == IF existing + d < 0 THEN 0 ELSE existing + d

\* As NewAmount, overwriting instead of adding.
NewAmountOverwrite(existing, d) == d

\* db.go 107
NewAmount(existing, d) == existing + d

\* As InsertAmount, binding the (zero) existingAmount instead of amount.
InsertAmountExisting(d) == 0

\* db.go 116: the amount bound to the INSERT
InsertAmount(d) == d

\* As StatementInTx, with the statement run on db (autocommit).
StatementOnDb == FALSE

\* db.go 109, 116: the write statement is run on tx, not on db.
StatementInTx == TRUE

\* The store runs write w for caller p: inside p's transaction it stays
\* pending until the commit, outside it is committed at once.
StoreWrite(p, w) ==
    IF StatementInTx
    THEN /\ pending' = [pending EXCEPT ![p] = w]
         /\ UNCHANGED stocks
    ELSE /\ stocks' = ApplyWrite(stocks, w)
         /\ UNCHANGED pending

\* As LockedByOther, with the lock kept after the transaction has committed.
LockedPastCommit(p, n) ==
    \E q \in Procs \ {p} : stx[q] \in {"active", "committed"} /\ name[q] = n

\* Another caller's open transaction holds a write on the rows of n.
LockedByOther(p, n) ==
    \E q \in Procs \ {p} : stx[q] = "active" /\ pending[q].op # "none" /\ pending[q].name = n

\* As UpdateBase, with the amount re-read from the table when the UPDATE runs.
UpdateBaseCurrent(p) == AmountOf(stocks, name[p])

\* db.go 83-84, 107: the UPDATE starts from the amount the lookup scanned, which
\* ran on db before the transaction began.
UpdateBase(p) == existingAmount[p]

\* A statement of the transaction failed: the error is kept and the function
\* unwinds through the deferred rollback.
FailInTx(p, err) ==
    /\ ret' = [ret EXCEPT ![p] = err]
    /\ pc' = [pc EXCEPT ![p] = "rollback"]

\* As WriteFailed, with the error of tx.Exec not looked at.
WriteErrUnchecked(err) == FALSE

\* db.go 110, 117: if err != nil
WriteFailed(err) == err # Nil

\* db.go 105-112: the UPDATE of the existing record.
ExecUpdate(p) ==
    /\ pc[p] = "write"
    /\ exists[p]
    /\ ~LockedByOther(p, name[p])
    /\ \E err \in Answers :
        /\ ops' = [ops EXCEPT ![p] = Append(@, Op("update", err))]
        /\ IF WriteFailed(err)
           THEN /\ FailInTx(p, Errorf(UpdateErrorMsg, err))
                /\ UNCHANGED <<pending, stocks>>
           ELSE /\ StoreWrite(p, UpdateWrite(name[p], NewAmount(UpdateBase(p), amount[p])))
                /\ pc' = [pc EXCEPT ![p] = "commit"]
                /\ UNCHANGED ret
    /\ UNCHANGED <<nextId, stx, callVars, upsertVars, log, calls, queryVars, retRows>>

\* As InsertAnswers, for a table without the UNIQUE(name) constraint.
InsertAnswersNoUnique(tbl, n) == {Nil} \cup Faults

\* What the store may answer to the INSERT: it refuses a second row with the
\* same name (UNIQUE(name)).
InsertAnswers(tbl, n) == (IF HasName(tbl, n) THEN {ErrDuplicate} ELSE {Nil}) \cup Faults

\* db.go 113-120: the INSERT of a new record.
ExecInsert(p) ==
    /\ pc[p] = "write"
    /\ ~exists[p]
    /\ ~LockedByOther(p, name[p])
    /\ \E err \in InsertAnswers(stocks, name[p]) :
        /\ ops' = [ops EXCEPT ![p] = Append(@, Op("insert", err))]
        /\ IF WriteFailed(err)
           THEN /\ FailInTx(p, Errorf(InsertErrorMsg, err))
                /\ UNCHANGED <<pending, stocks, nextId>>
           ELSE /\ StoreWrite(p, InsertWrite(nextId, name[p], InsertAmount(amount[p])))
                /\ nextId' = nextId + 1
                /\ pc' = [pc EXCEPT ![p] = "commit"]
                /\ UNCHANGED ret
    /\ UNCHANGED <<stx, callVars, upsertVars, log, calls, queryVars, retRows>>

\* As CommitResult, with the error of tx.Commit() dropped.
CommitResultIgnored(err) == Nil

\* db.go 123-127: the result of the function once tx.Commit() answered err.
CommitResult(err) == IF err # Nil THEN Errorf(CommitErrorMsg, err) ELSE Nil

\* db.go 123-127: tx.Commit().  A commit that succeeds makes the pending write
\* part of the table; a commit that fails ends the transaction without it.
\* Either way the sql.Tx is finished.
Commit(p) ==
    /\ pc[p] = "commit"
    /\ txDone' = [txDone EXCEPT ![p] = TRUE]
    /\ pending' = [pending EXCEPT ![p] = NoWrite]
    /\ pc' = [pc EXCEPT ![p] = "rollback"]
    /\ \E err \in Answers :
        /\ ops' = [ops EXCEPT ![p] = Append(@, Op("commit", err))]
        /\ ret' = [ret EXCEPT ![p] = CommitResult(err)]
        /\ IF err # Nil
           THEN /\ stx' = [stx EXCEPT ![p] = "aborted"]
                /\ UNCHANGED stocks
           ELSE /\ stx' = [stx EXCEPT ![p] = "committed"]
                /\ stocks' = ApplyWrite(stocks, pending[p])
    /\ UNCHANGED <<nextId, callVars, existingAmount, exists, log, calls, queryVars, retRows>>

\* As RollbackReachesStore, with no rollback deferred at all.
RollbackNever(done) == FALSE

\* As RollbackReachesStore, with a rollback sent whatever the state of the Tx.
RollbackAlways(done) == TRUE

\* tx.Rollback() reaches the store only while the sql.Tx is not finished;
\* on a finished one it returns sql.ErrTxDone and does nothing.
RollbackReachesStore(done) == ~done

\* db.go 103: the deferred tx.Rollback(), run as the function returns.  Its
\* own result is dropped; the function returns the error it had.
DeferredRollback(p) ==
    /\ pc[p] = "rollback"
    /\ IF RollbackReachesStore(txDone[p])
       THEN /\ ops' = [ops EXCEPT ![p] = Append(@, Op("rollback", Nil))]
            /\ stx' = [stx EXCEPT ![p] = "aborted"]
            /\ pending' = [pending EXCEPT ![p] = NoWrite]
            /\ txDone' = [txDone EXCEPT ![p] = TRUE]
       ELSE UNCHANGED <<ops, stx, pending, txDone>>
    /\ pc' = [pc EXCEPT ![p] = "idle"]
    /\ log' = Record(p, LogEntry(p, ret[p], NilRows))
    /\ UNCHANGED <<stocks, nextId, callVars, existingAmount, exists, ret, calls, queryVars,
                   retRows>>

\* db.go 83-127: one step of a call of UpsertStock that was entered.
UpsertBody(p) ==
    \/ Lookup(p)
    \/ Begin(p)
    \/ ExecUpdate(p)
    \/ ExecInsert(p)
    \/ Commit(p)
    \/ DeferredRollback(p)

UpsertStep(p) ==
    \/ \E n \in Names, d \in Deltas : CallUpsert(p, n, d)
    \/ UpsertBody(p)

\* ------------------------------------------------------------- QueryStocks
\* QueryStocks returns (rws, err) to its caller.
ReturnRows(p, rws, err) ==
    /\ pc' = [pc EXCEPT ![p] = "idle"]
    /\ retRows' = [retRows EXCEPT ![p] = rws]
    /\ ret' = [ret EXCEPT ![p] = err]
    /\ log' = Record(p, LogEntry(p, err, rws))

\* db.go 36: caller p enters QueryStocks(db, n).
EnterQuery(p, n) ==
    /\ pc[p] = "idle"
    /\ calls' = calls + 1
    /\ pc' = [pc EXCEPT ![p] = "q_query"]
    /\ fn' = [fn EXCEPT ![p] = "QueryStocks"]
    /\ name' = [name EXCEPT ![p] = n]
    /\ amount' = [amount EXCEPT ![p] = 0]
    /\ cursor' = [cursor EXCEPT ![p] = NoCursor]
    /\ columns' = [columns EXCEPT ![p] = <<>>]
    /\ results' = [results EXCEPT ![p] = <<>>]
    /\ retRows' = [retRows EXCEPT ![p] = NilRows]
    /\ ret' = [ret EXCEPT ![p] = Nil]
    /\ pre' = [pre EXCEPT ![p] = stocks]
    /\ ops' = [ops EXCEPT ![p] = <<>>]
    /\ UNCHANGED <<storeVars, upsertVars, log, observed>>

\* A caller enters QueryStocks(db, n), any name.
CallQuery(p, n) == calls < MaxCalls /\ EnterQuery(p, n) /\ UNCHANGED main

\* As Closed, with no Close deferred: the cursor stays as it is.
LeftOpen(c) == c

\* rows.Close()
Closed(c) == [c EXCEPT !.open = FALSE]

\* As AfterSelect, for a statement that takes the rows it reads out of the table.
AfterSelectRemoving(tbl) == <<>>

\* db.go 37: the statement is a SELECT, which leaves the table as it is.
AfterSelect(tbl) == tbl

\* As QueryErrResult, with a message put in front of the store's error.
QueryErrWrapped(err) == <<"query error">> \o err

\* db.go 39-41: return nil, err
QueryErrResult(err) == err

\* db.go 37-42: db.Query answered with the rows rws or with an error; on
\* success the cursor is open and its Close deferred.
QueryAnswered(p, rws) ==
    /\ pc[p] = "q_query"
    /\ \E err \in Answers :
        /\ ops' = [ops EXCEPT ![p] = Append(@, Op("query", err))]
        /\ IF err # Nil
           THEN /\ ReturnRows(p, NilRows, QueryErrResult(err))
                /\ UNCHANGED cursor
           ELSE /\ cursor' = [cursor EXCEPT ![p] = OpenCursor(rws)]
                /\ pc' = [pc EXCEPT ![p] = "q_columns"]
                /\ UNCHANGED <<retRows, ret, log>>
    /\ stocks' = AfterSelect(stocks)
    /\ UNCHANGED <<nextId, stx, pending, upsertVars, callVars, columns, results, calls>>

\* db.go 37-38: the statement runs on the stocks table.
Query(p) == QueryAnswered(p, SelectWhereName(stocks, name[p]))

\* The values a mocked row may hold in a column: an integer, text as bytes or
\* as a string, or NULL.
MockValues == {IntVal(7), BytesVal("apple"), StringVal("banana"), NullVal}

\* The row of stocks the tests add to a mocked result, as the driver scans it.
MockStockRow == <<IntVal(1), BytesVal("apple"), IntVal(100)>>

\* The rows a mocked result may hold (sqlmock.NewRows(id, name, amount)
\* .AddRow(...)): the stock row, with any value in any one of its columns.
MockRowValues ==
    {[MockStockRow EXCEPT ![c] = v] : c \in 1 .. Len(StockColumns), v \in MockValues}

\* The results a mocked store may hand out: up to MaxRows such rows.
MockRowSets ==
    UNION {[1 .. n -> MockRowValues] : n \in 0 .. MaxRows}

\* db.go 37-38 against a mocked store: the statement is answered with the rows
\* the mock was told to return.
QueryMock(p) == \E rws \in MockRowSets : QueryAnswered(p, rws)

\* As ColumnsFailed, with the error of rows.Columns() not looked at.
ColumnsErrUnchecked(err) == FALSE

\* db.go 45: if err != nil
ColumnsFailed(err) == err # Nil

\* db.go 44-49: rows.Columns(), then the empty result slice.
Columns(p) ==
    /\ pc[p] = "q_columns"
    /\ \E err \in Answers :
        /\ ops' = [ops EXCEPT ![p] = Append(@, Op("columns", err))]
        /\ IF ColumnsFailed(err)
           THEN /\ ReturnRows(p, NilRows, err)
                /\ cursor' = [cursor EXCEPT ![p] = Closed(@)]
                /\ UNCHANGED <<columns, results>>
           ELSE /\ columns' = [columns EXCEPT ![p] = StockColumns]
                /\ results' = [results EXCEPT ![p] = <<>>]
                /\ pc' = [pc EXCEPT ![p] = "q_next"]
                /\ UNCHANGED <<cursor, retRows, ret, log>>
    /\ UNCHANGED <<storeVars, upsertVars, callVars, calls>>

\* As Normalize, with NULL scanned into a zero value.
NormalizeNullAsZero(val) ==
    IF val.t = "bytes" THEN StringVal(val.s)
    ELSE IF val.t = "nil" THEN IntVal(0)
    ELSE val

\* As Normalize, with no conversion at all.
NormalizeNothing(val) == val

\* db.go 61-66: a []byte becomes a string, anything else is kept.
Normalize(val) == IF val.t = "bytes" THEN StringVal(val.s) ELSE val

\* Set of the elements of a sequence.
Range(seq) == {seq[i] : i \in 1 .. Len(seq)}

\* As RowData, with an entry only for the columns that hold a value.
RowDataWithoutNull(cols, vals) ==
    [c \in {cols[i] : i \in {k \in 1 .. Len(cols) : vals[k].t # "nil"}} |->
        LET i == CHOOSE k \in 1 .. Len(cols) : cols[k] = c
        IN  IF vals[i].t = "bytes" THEN StringVal(vals[i].s) ELSE vals[i]]

\* db.go 59-67: rowData[colName] = value of column i, for i in increasing order
\* (a repeated column name keeps the last value written).
RowData(cols, vals) ==
    [c \in Range(cols) |->
        LET last == CHOOSE i \in 1 .. Len(cols) :
                        cols[i] = c /\ \A j \in 1 .. Len(cols) : cols[j] = c => j <= i
        IN  Normalize(vals[last])]

\* As ScanErrResult, with the rows decoded so far handed back.
ScanErrPartial(partial) == Rows(partial)

\* db.go 57: return nil, err
ScanErrResult(partial) == NilRows

\* As AppendRow, with the new row put in front.
PrependRow(res, row) == <<row>> \o res

\* db.go 68: results = append(results, rowData)
AppendRow(res, row) == Append(res, row)

\* db.go 50-69: rows.Next() is true; the row is scanned and appended, or the
\* scan fails and the function returns (nil, err).
ScanRow(p) ==
    /\ pc[p] = "q_next"
    /\ cursor[p].pos < Len(cursor[p].rows)
    /\ \E err \in Answers :
        /\ ops' = [ops EXCEPT ![p] = Append(@, Op("scan", err))]
        /\ IF err # Nil
           THEN /\ ReturnRows(p, ScanErrResult(results[p]), err)
                /\ cursor' = [cursor EXCEPT ![p] = Closed([@ EXCEPT !.pos = @ + 1])]
                /\ UNCHANGED results
           ELSE /\ results' = [results EXCEPT ![p] =
                       AppendRow(@, RowData(columns[p], cursor[p].rows[cursor[p].pos + 1]))]
                /\ cursor' = [cursor EXCEPT ![p].pos = @ + 1]
                /\ UNCHANGED <<pc, retRows, ret, log>>
    /\ UNCHANGED <<storeVars, upsertVars, callVars, columns, calls>>

\* What rows.Err() may answer once rows.Next() is false: nil at the end of the
\* rows, a fault wherever the iteration broke off.
ErrAnswers(c) == (IF c.pos = Len(c.rows) THEN {Nil} ELSE {}) \cup Faults

\* As QueryResult, with an empty result reported as sql.ErrNoRows.
QueryResultNoRowsError(rws) ==
    IF rws = <<>>
    THEN [rows |-> NilRows, err |-> ErrNoRows]
    ELSE [rows |-> Rows(rws), err |-> Nil]

\* As RowsErrResult, with the decoded rows handed back beside the error.
RowsErrWithRows(decoded) == Rows(decoded)

\* db.go 71: return nil, err
RowsErrResult(decoded) == NilRows

\* db.go 73: return results, nil
QueryResult(rws) == [rows |-> Rows(rws), err |-> Nil]

\* db.go 50, 70-73: rows.Next() is false; rows.Err() decides the result.
EndOfRows(p) ==
    /\ pc[p] = "q_next"
    /\ cursor' = [cursor EXCEPT ![p] = Closed(@)]
    /\ \E err \in ErrAnswers(cursor[p]) :
        /\ ops' = [ops EXCEPT ![p] = Append(@, Op("err", err))]
        /\ IF err # Nil
           THEN ReturnRows(p, RowsErrResult(results[p]), err)
           ELSE ReturnRows(p, QueryResult(results[p]).rows, QueryResult(results[p]).err)
    /\ UNCHANGED <<storeVars, upsertVars, callVars, columns, results, calls>>

\* db.go 37-73: one step of a call of QueryStocks that was entered.
QueryBody(p) ==
    \/ Query(p)
    \/ Columns(p)
    \/ ScanRow(p)
    \/ EndOfRows(p)

QueryStep(p) ==
    \/ \E n \in QueryNames : CallQuery(p, n)
    \/ QueryBody(p)

\* ---------------------------------------------------------- specifications
\* One caller, one call at a time (single writer).
Next == UpsertStep(1) \/ QueryStep(1)

Spec == Init /\ [][Next]_vars

\* Two callers of UpsertStock that overlap freely.
NextConc == \E p \in Procs : UpsertStep(p)

SpecConc == InitConc /\ [][NextConc]_vars

\* One caller of QueryStocks against a mocked store handing out any rows.
InitDecode == InitState /\ observed = {} /\ stocks = <<>> /\ main = NoMain

NextDecode ==
    \/ \E n \in QueryNames : CallQuery(1, n)
    \/ QueryMock(1)
    \/ Columns(1)
    \/ ScanRow(1)
    \/ EndOfRows(1)

SpecDecode == InitDecode /\ [][NextDecode]_vars

\* Two callers that overlap freely, the first calling both functions, where
\* every call that was entered goes on: each store operation returns and the
\* code runs on to its next statement.
NextLive == UpsertStep(1) \/ QueryStep(1) \/ UpsertStep(2)

Fairness ==
    /\ \A p \in Procs : WF_vars(UpsertBody(p))
    /\ WF_vars(QueryBody(1))

SpecLive == InitConc /\ [][NextLive]_vars /\ Fairness

\* The calls of the upsert scenario, in order: insert apple, read it, add to
\* it, read it, insert banana, read everything.
Scenario ==
    << [fn |-> "UpsertStock", name |-> "apple", amount |-> 100],
       [fn |-> "QueryStocks", name |-> "apple", amount |-> 0],
       [fn |-> "UpsertStock", name |-> "apple", amount |-> 200],
       [fn |-> "QueryStocks", name |-> "apple", amount |-> 0],
       [fn |-> "UpsertStock", name |-> "banana", amount |-> 50],
       [fn |-> "QueryStocks", name |-> "", amount |-> 0] >>

\* The caller makes the next call of the scenario; like the test, it goes on
\* whatever the previous call returned.
ScenarioCall(p) ==
    /\ calls < Len(Scenario)
    /\ LET c == Scenario[calls + 1]
       IN  IF c.fn = "UpsertStock"
           THEN EnterUpsert(p, c.name, c.amount)
           ELSE EnterQuery(p, c.name)
    /\ UNCHANGED main

InitScenario == InitState /\ observed = {1} /\ stocks = <<>> /\ main = NoMain

NextScenario == ScenarioCall(1) \/ UpsertBody(1) \/ QueryBody(1)

\* One caller running the scenario on an empty table.
SpecScenario == InitScenario /\ [][NextScenario]_vars

\* ------------------------------------------------------------- mainProcess
PingErrorMsg == "ping error"            \* main.go 15  "DB接続確認に失敗しました"
MainQueryErrorMsg == "query error"      \* main.go 21  "クエリ実行に失敗しました"
MainUpsertErrorMsg == "upsert error"    \* main.go 36  "在庫更新エラー"

\* fmt.Errorf("<prefix>: %v", err): the message followed by the text of err.
MainErrorf(prefix, err) == <<prefix>> \o err

\* As PingFailed, with the error of PingDB not looked at.
PingErrUnchecked(err) == FALSE

\* main.go 14: if err := PingDB(db); err != nil
PingFailed(err) == err # Nil

\* Everything of the callers and the store, which mainProcess itself leaves alone.
calleeVars == <<storeVars, upsertVars, queryVars, pc, fn, name, amount, pre, observed,
                retRows, ret, ops, log, calls>>

\* main.go 14-16: PingDB; a failure ends mainProcess.
Ping(p) ==
    /\ main.pc = "ping"
    /\ \E err \in Answers :
        main' = [main EXCEPT !.pinged = TRUE, !.ping = err,
                             !.pc = IF PingFailed(err) THEN "done" ELSE "query",
                             !.ret = IF PingFailed(err) THEN MainErrorf(PingErrorMsg, err)
                                     ELSE Nil]
    /\ UNCHANGED calleeVars

\* main.go 19: results, err := QueryStocks(db, productName)
MainQuery(p) ==
    /\ main.pc = "query"
    /\ EnterQuery(p, main.name)
    /\ main' = [main EXCEPT !.pc = "querying"]

\* main.go 20-22: QueryStocks returned an error, which ends mainProcess.
MainQueryFailed(p) ==
    /\ main.pc = "querying" /\ pc[p] = "idle"
    /\ ret[p] # Nil
    /\ main' = [main EXCEPT !.pc = "done", !.ret = MainErrorf(MainQueryErrorMsg, ret[p])]
    /\ UNCHANGED calleeVars

\* main.go 25-34: QueryStocks returned rows or none (either is only printed);
\* err = UpsertStock(db, productName, amount)
MainUpsert(p) ==
    /\ main.pc = "querying" /\ pc[p] = "idle"
    /\ ret[p] = Nil
    /\ EnterUpsert(p, main.name, main.amount)
    /\ main' = [main EXCEPT !.pc = "upserting"]

\* main.go 35-39: the result of UpsertStock decides the result of mainProcess.
MainReturn(p) ==
    /\ main.pc = "upserting" /\ pc[p] = "idle"
    /\ main' = [main EXCEPT !.pc = "done",
                            !.ret = IF ret[p] # Nil
                                    THEN MainErrorf(MainUpsertErrorMsg, ret[p])
                                    ELSE Nil]
    /\ UNCHANGED calleeVars

\* mainProcess(db, productName, amount) is entered, any product and amount.
InitMain ==
    /\ InitState /\ observed = {1}
    /\ \E n \in Names, d \in Deltas :
        main = [pc |-> "ping", name |-> n, amount |-> d, pinged |-> FALSE, ping |-> Nil,
                ret |-> Nil]

NextMain ==
    \/ Ping(1)
    \/ MainQuery(1)
    \/ QueryBody(1)
    \/ MainQueryFailed(1)
    \/ MainUpsert(1)
    \/ UpsertBody(1)
    \/ MainReturn(1)

\* One run of mainProcess.
SpecMain == InitMain /\ [][NextMain]_vars

\* ------------------------------------------------------------------ claims
\* The UpsertStock call of caller p has returned.
Done(p) == pc[p] = "idle" /\ fn[p] = "UpsertStock"

\* The call of p issued a store operation of this kind.
Issued(p, kind) == \E i \in 1 .. Len(ops[p]) : ops[p][i].op = kind

\* The store answered an operation of this kind of p's call with an error.
FailedOp(p, kind) == \E i \in 1 .. Len(ops[p]) : ops[p][i].op = kind /\ ops[p][i].err # Nil

\* The error the store answered to p's operation of this kind.
ErrOf(p, kind) == ops[p][CHOOSE i \in 1 .. Len(ops[p]) : ops[p][i].op = kind].err

\* err is the message msg followed by the message of cause.
Wraps(err, msg, cause) == err # Nil /\ Head(err) = msg /\ Tail(err) = cause

\* The table once the k-th recorded call had returned (single caller).
TableAfter(k) ==
    IF k < Len(log) THEN log[k + 1].before
    ELSE IF pc[1] = "idle" THEN stocks ELSE pre[1]

\* C1: a call UpsertStock(name, d) that returns nil for a name whose record
\* held amount a, with no other writer, leaves exactly one record for the name,
\* with amount a + d, whatever the sign of d.
C1_ExistingAmountPlusDelta ==
    \A p \in Procs :
        (Done(p) /\ ret[p] = Nil /\ HasName(pre[p], name[p])) =>
            /\ Cardinality(RowsNamed(stocks, name[p])) = 1
            /\ AmountOf(stocks, name[p]) = AmountOf(pre[p], name[p]) + amount[p]

C1_Witness ==
    \E p \in Procs :
        /\ Done(p) /\ ret[p] = Nil /\ HasName(pre[p], name[p])
        /\ amount[p] < 0 /\ AmountOf(pre[p], name[p]) > 0

\* C2: a call UpsertStock(name, d) that returns nil for a name without a record
\* creates exactly one record for the name, with amount d, and a QueryStocks(name)
\* that follows and succeeds returns one row, with that name and amount.
C2_InsertThenQuery ==
    /\ \A p \in Procs :
        (Done(p) /\ ret[p] = Nil /\ ~HasName(pre[p], name[p])) =>
            /\ Cardinality(RowsNamed(stocks, name[p])) = 1
            /\ AmountOf(stocks, name[p]) = amount[p]
    /\ \A k \in 1 .. Len(log) - 1 :
        LET e1 == log[k]
            e2 == log[k + 1]
        IN  (/\ e1.fn = "UpsertStock" /\ e1.ret = Nil /\ ~HasName(e1.before, e1.name)
             /\ e2.fn = "QueryStocks" /\ e2.ret = Nil /\ e2.name = e1.name) =>
                /\ ~e2.rows.nil
                /\ Len(e2.rows.rows) = 1
                /\ e2.rows.rows[1]["amount"] = IntVal(e1.amount)
                /\ e2.rows.rows[1]["name"] = StringVal(e1.name)

C2_Witness ==
    \E k \in 1 .. Len(log) - 1 :
        /\ log[k].fn = "UpsertStock" /\ log[k].ret = Nil
        /\ ~HasName(log[k].before, log[k].name) /\ log[k].amount # 0
        /\ log[k + 1].fn = "QueryStocks" /\ log[k + 1].ret = Nil
        /\ log[k + 1].name = log[k].name

\* C3: two successive calls UpsertStock(name, d) that both return nil, starting
\* from amount a, leave amount a + 2d; that is not a + d unless d = 0.
C3_TwiceAddsTwice ==
    \A k \in 1 .. Len(log) - 1 :
        LET e1 == log[k]
            e2 == log[k + 1]
            a == AmountOf(e1.before, e1.name)
            after == AmountOf(TableAfter(k + 1), e1.name)
        IN  (/\ e1.fn = "UpsertStock" /\ e1.ret = Nil /\ HasName(e1.before, e1.name)
             /\ e2.fn = "UpsertStock" /\ e2.ret = Nil
             /\ e2.name = e1.name /\ e2.amount = e1.amount) =>
                /\ after = a + 2 * e1.amount
                /\ e1.amount # 0 => after # a + e1.amount

C3_Witness ==
    \E k \in 1 .. Len(log) - 1 :
        /\ log[k].fn = "UpsertStock" /\ log[k].ret = Nil
        /\ HasName(log[k].before, log[k].name)
        /\ log[k + 1].fn = "UpsertStock" /\ log[k + 1].ret = Nil
        /\ log[k + 1].name = log[k].name /\ log[k + 1].amount = log[k].amount
        /\ log[k].amount # 0

\* C4: when the UPDATE fails, UpsertStock returns the update error around the
\* store's fault, the transaction is rolled back at the store, and a lookup of
\* the name gives what it gave before the call.
C4_UpdateFailureRollsBack ==
    \A p \in Procs :
        (Done(p) /\ FailedOp(p, "update")) =>
            /\ Wraps(ret[p], UpdateErrorMsg, ErrOf(p, "update"))
            /\ Issued(p, "rollback")
            /\ stx[p] = "aborted"
            /\ pending[p] = NoWrite
            /\ QueryRowScan(stocks, name[p]) = QueryRowScan(pre[p], name[p])

C4_Witness ==
    \E p \in Procs : Done(p) /\ FailedOp(p, "update") /\ HasName(pre[p], name[p])

\* C5: when the INSERT fails, UpsertStock returns the insert error around the
\* store's fault, the transaction is rolled back at the store, and the table
\* still holds no record for the name.
C5_InsertFailureRollsBack ==
    \A p \in Procs :
        (Done(p) /\ FailedOp(p, "insert")) =>
            /\ Wraps(ret[p], InsertErrorMsg, ErrOf(p, "insert"))
            /\ Issued(p, "rollback")
            /\ stx[p] = "aborted"
            /\ pending[p] = NoWrite
            /\ ~HasName(stocks, name[p])

C5_Witness ==
    \E p \in Procs : Done(p) /\ FailedOp(p, "insert") /\ ~HasName(pre[p], name[p])

\* The lookup of p's call was answered with a fault other than "no rows".
LookupFault(p) == FailedOp(p, "lookup") /\ ErrOf(p, "lookup") # ErrNoRows

\* C6: when the lookup fails with a fault other than "no rows", UpsertStock has
\* returned the lookup error around that fault, the lookup is the only store
\* operation of the call (no begin, no write), and the table is as before.
C6_LookupFailureStops ==
    \A p \in Procs :
        (fn[p] = "UpsertStock" /\ LookupFault(p)) =>
            /\ pc[p] = "idle"
            /\ Wraps(ret[p], LookupErrorMsg, ErrOf(p, "lookup"))
            /\ Len(ops[p]) = 1
            /\ stx[p] = "none"
            /\ pending[p] = NoWrite
            /\ stocks = pre[p]

C6_Witness ==
    \E p \in Procs : Done(p) /\ LookupFault(p) /\ HasName(pre[p], name[p])

\* C7: when db.Begin fails, UpsertStock has returned the transaction-start
\* error; the call issued the lookup and the begin and nothing else (no UPDATE,
\* INSERT, commit or rollback), and the table is as before.
C7_BeginFailureStops ==
    \A p \in Procs :
        (fn[p] = "UpsertStock" /\ FailedOp(p, "begin")) =>
            /\ pc[p] = "idle"
            /\ Wraps(ret[p], BeginErrorMsg, ErrOf(p, "begin"))
            /\ Len(ops[p]) = 2
            /\ \A kind \in {"update", "insert", "commit", "rollback"} : ~Issued(p, kind)
            /\ stx[p] = "none"
            /\ stocks = pre[p]

C7_Witness ==
    \E p \in Procs : Done(p) /\ FailedOp(p, "begin") /\ Len(ops[p]) = 2

\* The write statement of p's call was answered without error.
WriteSucceeded(p) ==
    \E i \in 1 .. Len(ops[p]) : ops[p][i].op \in {"update", "insert"} /\ ops[p][i].err = Nil

\* C8: when the commit fails, the result of UpsertStock is the commit error
\* around the store's fault and not nil, although the write statement of the
\* transaction succeeded.
C8_CommitFailureReported ==
    \A p \in Procs :
        (fn[p] = "UpsertStock" /\ FailedOp(p, "commit")) =>
            /\ WriteSucceeded(p)
            /\ Wraps(ret[p], CommitErrorMsg, ErrOf(p, "commit"))
            /\ ret[p] # Nil

C8_Witness ==
    \E p \in Procs : Done(p) /\ FailedOp(p, "commit") /\ Issued(p, "insert")

ErrorMsgs == {LookupErrorMsg, BeginErrorMsg, UpdateErrorMsg, InsertErrorMsg, CommitErrorMsg}

BeginSucceeded(p) == Issued(p, "begin") /\ ~FailedOp(p, "begin")

\* tx.Commit of p's call succeeded.
CommitSucceeded(p) == Issued(p, "commit") /\ ~FailedOp(p, "commit")

C11_RollbackAfterCommitIsNoOp ==
    \A p \in Procs :
        (Done(p) /\ CommitSucceeded(p)) =>
            /\ ret[p] = Nil
            /\ ~Issued(p, "rollback")
            /\ stx[p] = "committed"
            /\ ops[p][Len(ops[p])].op = "commit"
            /\ HasName(stocks, name[p])
            /\ AmountOf(stocks, name[p]) =
                    (IF HasName(pre[p], name[p]) THEN AmountOf(pre[p], name[p]) ELSE 0)
                        + amount[p]

C11_Witness ==
    \E p \in Procs :
        /\ Done(p) /\ CommitSucceeded(p) /\ txDone[p]
        /\ amount[p] # 0 /\ stocks # pre[p]

\* C12: a lost update is reachable.  Two overlapping calls UpsertStock(n, d1) and
\* UpsertStock(n, d2) on an existing name that both looked up amount a and both
\* returned nil leave a + d1 or a + d2 (the write of the later commit); the
\* witness is such a state where the amount is not a + d1 + d2.
C12_LostUpdate ==
    \A p \in Procs, q \in Procs :
        (/\ p # q /\ Done(p) /\ Done(q) /\ name[p] = name[q]
         /\ exists[p] /\ exists[q] /\ existingAmount[p] = existingAmount[q]
         /\ CommitSucceeded(p) /\ CommitSucceeded(q)
         /\ ret[p] = Nil /\ ret[q] = Nil) =>
            AmountOf(stocks, name[p]) \in
                {existingAmount[p] + amount[p], existingAmount[q] + amount[q]}

C12_Witness ==
    \E p \in Procs, q \in Procs :
        /\ p # q /\ Done(p) /\ Done(q) /\ name[p] = name[q]
        /\ exists[p] /\ exists[q] /\ existingAmount[p] = existingAmount[q]
        /\ pre[p] = pre[q]
        /\ ret[p] = Nil /\ ret[q] = Nil
        /\ amount[p] # 0 /\ amount[q] # 0
        /\ AmountOf(stocks, name[p]) # existingAmount[p] + amount[p] + amount[q]
        /\ AmountOf(stocks, name[p]) = existingAmount[q] + amount[q]

\* C13: in every reachable state, overlapping and failed calls included, the
\* table holds at most one record for each name.
C13_AtMostOneRecordPerName ==
    \A n \in Names : Cardinality(RowsNamed(stocks, n)) <= 1

C13_Witness ==
    \E p \in Procs, q \in Procs :
        /\ p # q /\ Done(p) /\ Done(q) /\ name[p] = name[q]
        /\ ~exists[p] /\ ~exists[q]
        /\ CommitSucceeded(p)
        /\ FailedOp(q, "insert") /\ ErrOf(q, "insert") = ErrDuplicate
        /\ Cardinality(RowsNamed(stocks, name[p])) = 1

\* C14: no step deletes a record: every record of the table is still there
\* after the step, with its id and name, so the set of names only grows.
C14_NoRecordDeleted ==
    [][/\ Len(stocks') >= Len(stocks)
       /\ \A i \in 1 .. Len(stocks) :
            /\ stocks'[i].id = stocks[i].id
            /\ stocks'[i].name = stocks[i].name
       /\ \A n \in Names : HasName(stocks, n) => HasName(stocks', n)]_vars

C14_Witness ==
    \E p \in Procs :
        /\ Done(p) /\ CommitSucceeded(p) /\ exists[p]
        /\ amount[p] < 0
        /\ HasName(stocks, name[p]) /\ AmountOf(stocks, name[p]) = 0
        /\ Len(stocks) > Len(pre[p])

\* The row map QueryStocks builds for record r.
RowOf(r) ==
    [c \in {"id", "name", "amount"} |->
        IF c = "id" THEN IntVal(r.id)
        ELSE IF c = "name" THEN StringVal(r.name)
        ELSE IntVal(r.amount)]

\* The row maps of the records of tbl with name n, in table order.
RowsOfName(tbl, n) ==
    LET match == SelectSeq(tbl, LAMBDA r : r.name = n)
    IN  [i \in 1 .. Len(match) |-> RowOf(match[i])]

\* The row maps of every record of tbl, in table order.
RowsOfAll(tbl) == [i \in 1 .. Len(tbl) |-> RowOf(tbl[i])]

\* The k-th recorded call is a QueryStocks that returned without error.
QueryReturned(k) == log[k].fn = "QueryStocks" /\ log[k].ret = Nil

\* C15: a QueryStocks("") that succeeds returns every record of the table (full
\* scan); a QueryStocks(n) with n not empty returns the records named n.
C15_EmptyNameIsFullScan ==
    \A k \in 1 .. Len(log) :
        QueryReturned(k) =>
            /\ ~log[k].rows.nil
            /\ log[k].rows.rows =
                    (IF log[k].name = ""
                     THEN RowsOfAll(log[k].before)
                     ELSE RowsOfName(log[k].before, log[k].name))

\* C15, as the code behaves: every QueryStocks that succeeds, the one with the
\* empty name included, returns the records whose name equals its argument; for
\* the empty name that is no record.
C15_QueryIsAlwaysFiltered ==
    \A k \in 1 .. Len(log) :
        QueryReturned(k) =>
            /\ ~log[k].rows.nil
            /\ log[k].rows.rows = RowsOfName(log[k].before, log[k].name)
            /\ log[k].name = "" => log[k].rows.rows = <<>>

C15_Witness ==
    \E k \in 1 .. Len(log) :
        /\ QueryReturned(k) /\ log[k].name = ""
        /\ log[k].before # <<>> /\ log[k].rows.rows = <<>>

\* The first k calls have returned, all without error.
AllNil(k) == Len(log) >= k /\ \A i \in 1 .. k : log[i].ret = Nil

\* The rows the k-th recorded call returned.
RowsAt(k) == log[k].rows.rows

\* C16: the scenario on an empty table, every call succeeding: after
\* UpsertStock("apple", 100), QueryStocks("apple") returns the one row (1, apple,
\* 100); after UpsertStock("apple", 200), QueryStocks("apple") returns amount 300;
\* after UpsertStock("banana", 50), QueryStocks("") returns exactly the two rows
\* apple 300 and banana 50.
C16_Scenario ==
    /\ AllNil(2) => RowsAt(2) = << RowOf(Rec(1, "apple", 100)) >>
    /\ AllNil(4) => Len(RowsAt(4)) = 1 /\ RowsAt(4)[1]["amount"] = IntVal(300)
    /\ AllNil(6) =>
            /\ Len(RowsAt(6)) = 2
            /\ RowsAt(6)[1]["name"] = StringVal("apple")
            /\ RowsAt(6)[1]["amount"] = IntVal(300)
            /\ RowsAt(6)[2]["name"] = StringVal("banana")
            /\ RowsAt(6)[2]["amount"] = IntVal(50)

\* C16, as the code behaves: the two reads of apple return 100 and then 300,
\* the table ends with apple 300 and banana 50, and the last call, with the
\* empty name, returns no row.
C16_ScenarioFilteredRead ==
    /\ AllNil(2) => RowsAt(2) = << RowOf(Rec(1, "apple", 100)) >>
    /\ AllNil(4) => RowsAt(4) = << RowOf(Rec(1, "apple", 300)) >>
    /\ AllNil(6) =>
            /\ stocks = << Rec(1, "apple", 300), Rec(2, "banana", 50) >>
            /\ ~log[6].rows.nil
            /\ RowsAt(6) = <<>>

C16_Witness ==
    /\ AllNil(6)
    /\ log[5].fn = "UpsertStock" /\ log[5].name = "banana"
    /\ log[6].fn = "QueryStocks" /\ log[6].name = ""
    /\ Len(stocks) = 2

\* The QueryStocks call of caller p has returned.
QueryDone(p) == pc[p] = "idle" /\ fn[p] = "QueryStocks"

\* No store operation of p's call was answered with an error.
NoFault(p) == \A i \in 1 .. Len(ops[p]) : ops[p][i].err = Nil

\* C17: a QueryStocks for a name that has no record, when the store reports no
\* fault, returns nil as error and a sequence of length 0; and whenever it
\* returns nil as error for such a name the sequence has length 0.
C17_NoRecordEmptyResult ==
    \A p \in Procs :
        (QueryDone(p) /\ ~HasName(pre[p], name[p])) =>
            /\ NoFault(p) => ret[p] = Nil
            /\ ret[p] = Nil => Len(retRows[p].rows) = 0
            /\ ~Issued(p, "scan")

C17_Witness ==
    \E p \in Procs :
        /\ QueryDone(p) /\ name[p] \in Names /\ ~HasName(pre[p], name[p])
        /\ pre[p] # <<>>
        /\ Issued(p, "err") /\ NoFault(p) /\ ret[p] = Nil

\* The number of operations of this kind p's call issued.
CountOps(p, kind) == Cardinality({i \in 1 .. Len(ops[p]) : ops[p][i].op = kind})

\* C18: when the scan of a row fails, QueryStocks stops at that row (the failed
\* scan is its last operation on the cursor, which has advanced to that row and
\* no further) and returns the scan error with a nil result, never the list of
\* the rows decoded before the failure.
C18_ScanFailureNoPartialList ==
    \A p \in Procs :
        (fn[p] = "QueryStocks" /\ FailedOp(p, "scan")) =>
            /\ pc[p] = "idle"
            /\ ret[p] # Nil
            /\ ops[p][Len(ops[p])] = Op("scan", ret[p])
            /\ retRows[p] = NilRows
            /\ cursor[p].pos = CountOps(p, "scan")
            /\ Len(results[p]) = CountOps(p, "scan") - 1
            /\ ~cursor[p].open

C18_Witness ==
    \E p \in Procs :
        /\ QueryDone(p) /\ FailedOp(p, "scan")
        /\ Len(results[p]) >= 1
        /\ cursor[p].pos = 2 /\ Len(cursor[p].rows) >= 2

\* C19: when the cursor reports a fault once the iteration has ended,
\* QueryStocks returns that fault and a nil result, also when every row was
\* scanned without error.
C19_CursorFaultAfterIteration ==
    \A p \in Procs :
        (fn[p] = "QueryStocks" /\ FailedOp(p, "err")) =>
            /\ pc[p] = "idle"
            /\ ret[p] = ErrOf(p, "err")
            /\ ret[p] # Nil
            /\ retRows[p] = NilRows
            /\ ~FailedOp(p, "scan")
            /\ ~cursor[p].open

C19_Witness ==
    \E p \in Procs :
        /\ QueryDone(p) /\ FailedOp(p, "err")
        /\ cursor[p].pos = Len(cursor[p].rows)
        /\ Len(results[p]) = Len(cursor[p].rows) /\ Len(results[p]) >= 2

\* C20: when the columns of the cursor cannot be retrieved, QueryStocks returns
\* that error and a nil result; it scans no row and checks no end of rows.
C20_ColumnsFailureScansNothing ==
    \A p \in Procs :
        (fn[p] = "QueryStocks" /\ FailedOp(p, "columns")) =>
            /\ pc[p] = "idle"
            /\ ret[p] = ErrOf(p, "columns")
            /\ retRows[p] = NilRows
            /\ ~Issued(p, "scan") /\ ~Issued(p, "err")
            /\ Len(ops[p]) = 2
            /\ cursor[p].pos = 0 /\ ~cursor[p].open
            /\ results[p] = <<>>

C20_Witness ==
    \E p \in Procs :
        /\ QueryDone(p) /\ FailedOp(p, "columns")
        /\ Len(cursor[p].rows) >= 1

\* db.Query of p's call returned a cursor.
CursorReturned(p) == Issued(p, "query") /\ ~FailedOp(p, "query")

\* The way p's QueryStocks call ended, by its last store operation.
ExitPath(p) == ops[p][Len(ops[p])].op

\* C21: once db.Query has returned a cursor, the cursor is open while
\* QueryStocks runs and closed once it has returned, on every exit path: after
\* the end of the rows without error, after a columns error, after a scan error
\* and after an error at the end of the iteration.
C21_CursorClosedOnEveryExit ==
    \A p \in Procs :
        (fn[p] = "QueryStocks" /\ CursorReturned(p)) =>
            /\ pc[p] # "idle" => cursor[p].open
            /\ pc[p] = "idle" =>
                    /\ ~cursor[p].open
                    /\ ExitPath(p) \in {"columns", "scan", "err"}

C21_Witness ==
    \E p \in Procs :
        /\ QueryDone(p) /\ CursorReturned(p)
        /\ ExitPath(p) = "scan" /\ ret[p] # Nil
        /\ cursor[p].pos < Len(cursor[p].rows)
        /\ ~cursor[p].open

\* The QueryStocks call of p has returned a result without error.
QueryOk(p) == QueryDone(p) /\ ret[p] = Nil /\ ~retRows[p].nil

\* The value the cursor of p's call holds in row i, column j.
Raw(p, i, j) == cursor[p].rows[i][j]

\* The zero values and the empty text a NULL could be mistaken for.
ZeroValues == {IntVal(0), StringVal(""), BytesVal("")}

\* C22: a NULL in any column of a row is in the mapping of that row as an
\* entry under the column's name whose value is the null marker: the key is
\* present and the value is no zero value and no empty string.
C22_NullPreserved ==
    \A p \in Procs :
        QueryOk(p) =>
            \A i \in 1 .. Len(cursor[p].rows), j \in 1 .. Len(columns[p]) :
                Raw(p, i, j) = NullVal =>
                    /\ i <= Len(retRows[p].rows)
                    /\ columns[p][j] \in DOMAIN retRows[p].rows[i]
                    /\ retRows[p].rows[i][columns[p][j]] = NullVal
                    /\ retRows[p].rows[i][columns[p][j]] \notin ZeroValues

C22_Witness ==
    \E p \in Procs :
        /\ QueryOk(p) /\ Len(retRows[p].rows) = 2
        /\ Raw(p, 1, 3) = NullVal /\ Raw(p, 2, 1) = NullVal
        /\ retRows[p].rows[1]["amount"] = NullVal
        /\ retRows[p].rows[2]["id"] = NullVal

\* C23: in every returned row, a value scanned as raw bytes is returned as the
\* text of those bytes, and any other scanned value (integer, string, NULL) is
\* returned with the type and value it was scanned with.
C23_BytesToTextOthersUnchanged ==
    \A p \in Procs :
        QueryOk(p) =>
            \A i \in 1 .. Len(retRows[p].rows), j \in 1 .. Len(columns[p]) :
                LET out == retRows[p].rows[i][columns[p][j]]
                IN  /\ Raw(p, i, j).t = "bytes" =>
                            out.t = "string" /\ out.s = Raw(p, i, j).s
                    /\ Raw(p, i, j).t # "bytes" => out = Raw(p, i, j)

C23_Witness ==
    \E p \in Procs :
        /\ QueryOk(p) /\ Len(retRows[p].rows) = 2
        /\ Raw(p, 1, 1) = BytesVal("apple") /\ retRows[p].rows[1]["id"] = StringVal("apple")
        /\ Raw(p, 2, 2) = StringVal("banana") /\ retRows[p].rows[2]["name"] = StringVal("banana")
        /\ Raw(p, 2, 3).t = "int64"

\* The mapping a cursor row decodes to, column by column.
Decoding(cols, vals) ==
    [c \in {cols[j] : j \in 1 .. Len(cols)} |->
        LET j == CHOOSE k \in 1 .. Len(cols) : cols[k] = c
        IN  IF vals[j].t = "bytes" THEN StringVal(vals[j].s) ELSE vals[j]]

\* C24: the sequence QueryStocks returns has one element per row of the
\* cursor, in the cursor's order: element i is the decoding of row i, no row
\* dropped, duplicated or moved; and while the call runs, the rows decoded so
\* far are those of the rows read so far, in that order.
C24_RowOrderPreserved ==
    \A p \in Procs :
        /\ QueryOk(p) =>
            /\ Len(retRows[p].rows) = Len(cursor[p].rows)
            /\ \A i \in 1 .. Len(cursor[p].rows) :
                    retRows[p].rows[i] = Decoding(columns[p], cursor[p].rows[i])
        /\ (fn[p] = "QueryStocks" /\ pc[p] = "q_next") =>
            /\ Len(results[p]) = cursor[p].pos
            /\ \A i \in 1 .. cursor[p].pos :
                    results[p][i] = Decoding(columns[p], cursor[p].rows[i])

C24_Witness ==
    \E p \in Procs :
        /\ QueryOk(p) /\ Len(retRows[p].rows) = 2
        /\ cursor[p].rows[1] # cursor[p].rows[2]
        /\ retRows[p].rows[1] # retRows[p].rows[2]
        /\ retRows[p].rows[2] = Decoding(columns[p], cursor[p].rows[2])

\* The lookup of p's call has been answered.
LookedUp(p) == fn[p] = "UpsertStock" /\ Issued(p, "lookup")

\* The number of write statements p's call issued.
Writes(p) == CountOps(p, "update") + CountOps(p, "insert")

\* p's call is past its write step.
PastWrite(p) == BeginSucceeded(p) /\ pc[p] \in {"commit", "rollback", "idle"}

\* C25: the answer of the lookup puts the call on exactly one of three paths.
\* No error: found, the call goes on and its only write is an UPDATE.
\* "No rows": not found, which is no error: the call goes on and its only
\* write is an INSERT.  Any other error: the call has returned the lookup
\* error and writes nothing.  A call past its write step has issued exactly
\* one write statement, never an UPDATE and an INSERT.
C25_LookupClassification ==
    \A p \in Procs :
        LookedUp(p) =>
            /\ ErrOf(p, "lookup") = Nil =>
                    /\ exists[p] /\ ~Issued(p, "insert")
                    /\ pc[p] = "begin" \/ Issued(p, "begin")
            /\ ErrOf(p, "lookup") = ErrNoRows =>
                    /\ ~exists[p] /\ ~Issued(p, "update")
                    /\ pc[p] = "begin" \/ Issued(p, "begin")
                    /\ ret[p] # Nil => Head(ret[p]) # LookupErrorMsg
            /\ ErrOf(p, "lookup") \notin {Nil, ErrNoRows} =>
                    /\ pc[p] = "idle" /\ Writes(p) = 0 /\ ~Issued(p, "begin")
                    /\ Wraps(ret[p], LookupErrorMsg, ErrOf(p, "lookup"))
            /\ Writes(p) <= 1
            /\ PastWrite(p) => Writes(p) = 1
            /\ Issued(p, "update") <=> (PastWrite(p) /\ ErrOf(p, "lookup") = Nil)
            /\ Issued(p, "insert") <=> (PastWrite(p) /\ ErrOf(p, "lookup") = ErrNoRows)

C25_Witness ==
    \E k \in 1 .. Len(log) :
        /\ log[k].fn = "UpsertStock" /\ log[k].ret = Nil /\ HasName(log[k].before, log[k].name)
        /\ Done(1) /\ ErrOf(1, "lookup") = ErrNoRows
        /\ Issued(1, "insert") /\ ret[1] = Nil

\* The kinds of the store operations of p's call, in the order issued.
OpKinds(p) == [i \in 1 .. Len(ops[p]) |-> ops[p][i].op]

\* Operation i of p's call was answered without error.
Succeeded(p, i) == ops[p][i].err \in {Nil, ErrNoRows}

\* C26: the store operations of one UpsertStock call come in the order lookup,
\* begin, write (UPDATE or INSERT), commit.  The lookup is first and issued
\* while the call has no transaction; the begin follows a lookup that did not
\* fail; the write follows a begin that succeeded; the commit follows a write
\* that succeeded, and nothing follows the commit.
C26_OperationOrder ==
    \A p \in Procs :
        fn[p] = "UpsertStock" =>
            /\ Len(ops[p]) <= 4
            /\ Len(ops[p]) >= 1 => OpKinds(p)[1] = "lookup"
            /\ Len(ops[p]) <= 1 => stx[p] = "none"
            /\ Len(ops[p]) >= 2 => OpKinds(p)[2] = "begin" /\ Succeeded(p, 1)
            /\ Len(ops[p]) >= 3 =>
                    /\ OpKinds(p)[3] \in {"update", "insert"}
                    /\ ops[p][2].err = Nil
            /\ Len(ops[p]) = 4 =>
                    /\ OpKinds(p)[4] = (IF ops[p][3].err = Nil THEN "commit" ELSE "rollback")
            /\ stx[p] = "active" => Len(ops[p]) \in {2, 3}

C26_Witness ==
    \E p \in Procs :
        /\ Done(p) /\ ret[p] = Nil
        /\ OpKinds(p) = <<"lookup", "begin", "update", "commit">>

\* The message UpsertStock puts in front of a fault of a step of this kind.
MsgOf(kind) ==
    IF kind = "lookup" THEN LookupErrorMsg
    ELSE IF kind = "begin" THEN BeginErrorMsg
    ELSE IF kind = "update" THEN UpdateErrorMsg
    ELSE IF kind = "insert" THEN InsertErrorMsg
    ELSE CommitErrorMsg

\* Operation i of p's call is a step the store answered with a fault.
FailedStep(p, i) == ops[p][i].op # "rollback" /\ ~Succeeded(p, i)

\* C27: UpsertStock retries nothing.  In one call the lookup, the begin, the
\* write and the commit are each issued at most once; a step the store answers
\* with a fault is the last step of the call (only the rollback may follow),
\* and the result of the call is the message of that step followed by the
\* store's fault.
C27_NoRetry ==
    \A p \in Procs :
        fn[p] = "UpsertStock" =>
            /\ \A kind \in {"lookup", "begin", "commit", "rollback"} : CountOps(p, kind) <= 1
            /\ Writes(p) <= 1
            /\ \A i \in 1 .. Len(ops[p]) :
                    FailedStep(p, i) =>
                        /\ \A j \in i + 1 .. Len(ops[p]) : ops[p][j].op = "rollback"
                        /\ pc[p] \in {"rollback", "idle"}
                        /\ Wraps(ret[p], MsgOf(ops[p][i].op), ops[p][i].err)
            /\ (Done(p) /\ ret[p] # Nil) => \E i \in 1 .. Len(ops[p]) : FailedStep(p, i)

C27_Witness ==
    \E p \in Procs :
        /\ Done(p) /\ Len(ops[p]) = 4
        /\ FailedStep(p, 3) /\ ops[p][3].op = "insert" /\ ops[p][3].err \in Faults
        /\ ops[p][4].op = "rollback"
        /\ Wraps(ret[p], InsertErrorMsg, ops[p][3].err)

\* mainProcess has returned.
MainDone == main.pc = "done"

\* The QueryStocks call of mainProcess has returned, with this error.
MainQueryReturned == Len(log) >= 1
MainQueryErr == log[1].ret

\* C28: mainProcess pings, then calls QueryStocks, then UpsertStock, with its
\* own arguments, and stops at the first failure.  A failed ping is followed
\* by no call at all; a failed QueryStocks is followed by no UpsertStock; a
\* QueryStocks that returns no row is no failure: UpsertStock is called all the
\* same, and when it succeeds it has inserted the item.
C28_MainProcessOrder ==
    /\ calls <= 2 /\ Len(log) <= calls
    /\ calls >= 1 => main.pinged /\ main.ping = Nil
    /\ (main.pinged /\ main.ping # Nil) =>
            /\ MainDone /\ calls = 0 /\ log = <<>>
            /\ Wraps(main.ret, PingErrorMsg, main.ping)
    /\ MainQueryReturned =>
            /\ log[1].fn = "QueryStocks" /\ log[1].name = main.name
            /\ MainQueryErr # Nil =>
                    /\ calls = 1
                    /\ MainDone => Wraps(main.ret, MainQueryErrorMsg, MainQueryErr)
    /\ calls = 2 =>
            /\ MainQueryReturned /\ MainQueryErr = Nil
            /\ fn[1] = "UpsertStock" /\ name[1] = main.name /\ amount[1] = main.amount
    /\ (MainDone /\ MainQueryReturned /\ MainQueryErr = Nil) =>
            /\ Len(log) = 2 /\ log[2].fn = "UpsertStock"
            /\ main.ret = (IF log[2].ret = Nil THEN Nil
                            ELSE MainErrorf(MainUpsertErrorMsg, log[2].ret))
            /\ (log[1].rows.rows = <<>> /\ log[2].ret = Nil) =>
                    /\ Issued(1, "insert")
                    /\ ~HasName(log[2].before, main.name)
                    /\ HasName(stocks, main.name)
                    /\ AmountOf(stocks, main.name) = main.amount

C28_Witness ==
    /\ MainDone /\ main.ret = Nil /\ Len(log) = 2
    /\ log[1].rows.rows = <<>> /\ log[1].before # <<>>
    /\ Issued(1, "insert") /\ main.amount # 0
    /\ Len(stocks) = 2

\* C29: when db.Query itself fails, QueryStocks has returned the store's error
\* as it is (no message added) and a nil result; no cursor was opened and the
\* query is the only operation of the call.
C29_SelectFailureUnchanged ==
    \A p \in Procs :
        (fn[p] = "QueryStocks" /\ FailedOp(p, "query")) =>
            /\ pc[p] = "idle"
            /\ ret[p] = ErrOf(p, "query")
            /\ ret[p] \in Faults
            /\ retRows[p] = NilRows
            /\ cursor[p] = NoCursor
            /\ Len(ops[p]) = 1

C29_Witness ==
    \E p \in Procs :
        /\ QueryDone(p) /\ FailedOp(p, "query")
        /\ HasName(stocks, name[p])

\* Every store operation of p's call was answered without a fault.
AllSucceeded(p) == \A i \in 1 .. Len(ops[p]) : Succeeded(p, i)

\* The amount the table held for p's name when the call started, 0 if none.
AmountBefore(p) == IF HasName(pre[p], name[p]) THEN AmountOf(pre[p], name[p]) ELSE 0

\* C30: UpsertStock enforces no floor on the amount.  A call the store answers
\* without a fault returns nil also when the existing amount plus the delta
\* is negative, or when the delta of a new name is negative, and the table
\* then holds that negative amount.
C30_NegativeAmountStored ==
    \A p \in Procs :
        (Done(p) /\ AllSucceeded(p) /\ AmountBefore(p) + amount[p] < 0) =>
            /\ ret[p] = Nil
            /\ HasName(stocks, name[p])
            /\ AmountOf(stocks, name[p]) = AmountBefore(p) + amount[p]
            /\ AmountOf(stocks, name[p]) < 0

C30_Witness ==
    /\ Len(log) = 2 /\ Done(1) /\ AllSucceeded(1)
    /\ log[1].fn = "UpsertStock" /\ log[1].ret = Nil
    /\ ~HasName(log[1].before, log[1].name) /\ log[1].amount < 0
    /\ name[1] = log[1].name /\ Issued(1, "update") /\ amount[1] < 0
    /\ AmountOf(pre[1], name[1]) < 0
    /\ AmountOf(stocks, name[1]) = log[1].amount + amount[1]

\* The names of the column list p's call read.
ColumnNames(p) == {columns[p][j] : j \in 1 .. Len(columns[p])}

\* C31: a QueryStocks call reads the column list once, as its first operation
\* on the cursor and so before any row is scanned, and every mapping it has
\* decoded or returned has exactly the names of that list as keys, one entry
\* per column.
C31_ColumnsReadOnce ==
    \A p \in Procs :
        fn[p] = "QueryStocks" =>
            /\ CountOps(p, "columns") <= 1
            /\ \A i \in 1 .. Len(ops[p]) :
                    /\ ops[p][i].op = "columns" => i = 2
                    /\ ops[p][i].op \in {"scan", "err"} =>
                            i > 2 /\ ops[p][2] = Op("columns", Nil)
            /\ \A i \in 1 .. Len(results[p]) :
                    /\ DOMAIN results[p][i] = ColumnNames(p)
                    /\ Cardinality(DOMAIN results[p][i]) = Len(columns[p])
            /\ QueryOk(p) =>
                    \A i \in 1 .. Len(retRows[p].rows) :
                        DOMAIN retRows[p].rows[i] = ColumnNames(p)

C31_Witness ==
    \E p \in Procs :
        /\ QueryOk(p) /\ Len(retRows[p].rows) = 2
        /\ CountOps(p, "columns") = 1 /\ CountOps(p, "scan") = 2
        /\ Raw(p, 2, 2) = NullVal
        /\ DOMAIN retRows[p].rows[2] = {"id", "name", "amount"}

\* The table before the first recorded call.
InitialTable == IF Len(log) >= 1 THEN log[1].before ELSE pre[1]

\* The k-th recorded call is an UpsertStock for n that returned nil.
Counted(k, n) == log[k].fn = "UpsertStock" /\ log[k].name = n /\ log[k].ret = Nil

\* The sum of the deltas of the first k recorded calls for n that returned nil.
RECURSIVE SumOfDeltas(_, _)
SumOfDeltas(k, n) ==
    IF k = 0 THEN 0
    ELSE SumOfDeltas(k - 1, n) + (IF Counted(k, n) THEN log[k].amount ELSE 0)

BothUpdated(p, q) ==
    /\ p # q /\ calls = 2 /\ Done(p) /\ Done(q)
    /\ name[p] = name[q]
    /\ exists[p] /\ exists[q]
    /\ ret[p] = Nil /\ ret[q] = Nil

\* p's call started on the table as it was before both calls: q's call started
\* on the same amount, or on the amount p's commit left.
StartedFirst(p, q) ==
    AmountOf(pre[q], name[q]) \in
        {AmountOf(pre[p], name[p]), AmountOf(pre[p], name[p]) + amount[p]}

\* C33: two overlapping calls UpsertStock(n, d1) and UpsertStock(n, d2) on a
\* name whose record holds a, both returning nil, leave a + d1, a + d2 or
\* a + d1 + d2 and nothing else; the amount left is the one the last commit
\* wrote, the amount its call looked up plus its own delta.
C33_ConcurrentFinalAmount ==
    \A p \in Procs, q \in Procs :
        (BothUpdated(p, q) /\ StartedFirst(p, q)) =>
            LET a == AmountOf(pre[p], name[p])
                final == AmountOf(stocks, name[p])
            IN  /\ final \in {a + amount[p], a + amount[q], a + amount[p] + amount[q]}
                /\ final \in {existingAmount[p] + amount[p], existingAmount[q] + amount[q]}
                /\ existingAmount[p] \in {a, a + amount[q]}
                /\ existingAmount[q] \in {a, a + amount[p]}

C33_Witness ==
    \E p \in Procs, q \in Procs :
        /\ BothUpdated(p, q) /\ pre[p] = pre[q]
        /\ amount[p] > 0 /\ amount[q] > 0
        /\ existingAmount[q] = existingAmount[p] + amount[p]
        /\ AmountOf(stocks, name[p]) = AmountOf(pre[p], name[p]) + amount[p] + amount[q]

\* p and q each made one call of UpsertStock, the only two calls, for the same
\* name, and both lookups found no record.
BothNotFound(p, q) ==
    /\ p # q /\ calls = 2 /\ Done(p) /\ Done(q)
    /\ name[p] = name[q]
    /\ Issued(p, "lookup") /\ ErrOf(p, "lookup") = ErrNoRows
    /\ Issued(q, "lookup") /\ ErrOf(q, "lookup") = ErrNoRows

\* No operation of p's call was answered with a fault of the store itself.
NoStoreFault(p) == \A i \in 1 .. Len(ops[p]) : ops[p][i].err \notin Faults

\* C34: when two overlapping calls of UpsertStock for the same absent name both
\* find no record, at most one of their INSERTs is committed, and the record
\* holds the delta of the committed call only, never the sum.  The other call,
\* when the store reports no fault of its own, fails with the insert error
\* around the refusal of the uniqueness constraint.
C34_ConcurrentInsert ==
    \A p \in Procs, q \in Procs :
        BothNotFound(p, q) =>
            /\ ~(CommitSucceeded(p) /\ CommitSucceeded(q))
            /\ ~(ret[p] = Nil /\ ret[q] = Nil)
            /\ CommitSucceeded(p) =>
                    /\ Cardinality(RowsNamed(stocks, name[p])) = 1
                    /\ AmountOf(stocks, name[p]) = amount[p]
                    /\ ret[q] # Nil
                    /\ NoStoreFault(q) =>
                            /\ Wraps(ret[q], InsertErrorMsg, ErrDuplicate)
                            /\ ops[q][Len(ops[q])] = Op("rollback", Nil)
            /\ (NoStoreFault(p) /\ NoStoreFault(q)) =>
                    CommitSucceeded(p) \/ CommitSucceeded(q)
            /\ (~CommitSucceeded(p) /\ ~CommitSucceeded(q)) => ~HasName(stocks, name[p])

C34_Witness ==
    \E p \in Procs, q \in Procs :
        /\ BothNotFound(p, q) /\ pre[p] = pre[q]
        /\ NoStoreFault(p) /\ NoStoreFault(q)
        /\ ret[p] = Nil /\ Wraps(ret[q], InsertErrorMsg, ErrDuplicate)
        /\ amount[p] # 0 /\ amount[q] # 0 /\ amount[p] # amount[q]
        /\ AmountOf(stocks, name[p]) = amount[p]
        /\ AmountOf(stocks, name[p]) # amount[p] + amount[q]

\* The records of n, in table order.
RecordsOf(tbl, n) == SelectSeq(tbl, LAMBDA r : r.name = n)

\* This step is the commit of a call UpsertStock(n, d) of caller p.
CommitsFor(p, n) ==
    /\ fn[p] = "UpsertStock" /\ name[p] = n
    /\ pc[p] = "commit" /\ pc'[p] = "rollback"

\* C35: UpsertStock(name, d) changes no record but the one of name.  A step
\* that changes, adds or removes a record of a name is the commit of a call for
\* that very name; the records of every other name keep their existence, id
\* and amount through every step of the call, whether it succeeds or fails.
C35_OtherNamesUnchanged ==
    [][\A n \in Names :
            RecordsOf(stocks', n) # RecordsOf(stocks, n) =>
                \E p \in Procs :
                    /\ CommitsFor(p, n)
                    /\ \A m \in Names \ {n} : RecordsOf(stocks', m) = RecordsOf(stocks, m)]_vars

C35_Witness ==
    \E p \in Procs :
        /\ Done(p) /\ CommitSucceeded(p) /\ exists[p]
        /\ HasName(pre[p], name[p])
        /\ AmountOf(stocks, name[p]) # AmountOf(pre[p], name[p])
        /\ \E m \in Names \ {name[p]} :
                /\ HasName(pre[p], m)
                /\ RecordsOf(stocks, m) = RecordsOf(pre[p], m)
                /\ AmountOf(stocks, m) # AmountOf(stocks, name[p])

\* The store operations QueryStocks may issue.
QueryOps == {"query", "columns", "scan", "err"}

\* C36: QueryStocks only reads.  No step of a QueryStocks call, on any exit
\* path, changes the table, the id counter or a transaction of the store; the
\* call issues reads on the cursor only (no begin, write, commit or rollback),
\* and the table is the same when it returns as when it was called.
C36_QueryReadOnly ==
    [][\A p \in Procs :
            fn'[p] = "QueryStocks" =>
                /\ stocks' = stocks /\ nextId' = nextId
                /\ stx' = stx /\ pending' = pending
                /\ stocks' = pre'[p]
                /\ \A i \in 1 .. Len(ops'[p]) : ops'[p][i].op \in QueryOps]_vars

C36_Witness ==
    \E p \in Procs :
        /\ QueryOk(p) /\ Len(retRows[p].rows) = 1
        /\ stocks = pre[p] /\ stocks # <<>>
        /\ Len(log) = 2 /\ log[1].fn = "UpsertStock" /\ log[1].ret = Nil
        /\ stx[p] = "committed"

\* The six results UpsertStock can return: nil or one of the five errors.
Outcome(err) ==
    IF err = Nil THEN "success"
    ELSE IF Head(err) \in ErrorMsgs THEN Head(err)
    ELSE "other"

Outcomes == {"success"} \cup ErrorMsgs

\* C37: when every store operation returns, every call of UpsertStock returns,
\* with one of six outcomes (success, lookup error, transaction-start error,
\* update error, insert error, commit error), and every call of QueryStocks
\* returns; a call that waits for a row lock goes on once the transaction
\* holding it has ended.
C37_CallsReturn ==
    /\ [](\A p \in Procs : Done(p) => Outcome(ret[p]) \in Outcomes)
    /\ \A p \in Procs : (pc[p] # "idle") ~> (pc[p] = "idle")

C37_Witness ==
    \E p \in Procs, q \in Procs :
        /\ p # q /\ pc[p] = "write" /\ LockedByOther(p, name[p])
        /\ pc[q] = "commit" /\ name[q] = name[p]

====
